---- MODULE Spec2Model ----
(***************************************************************************)
(* gaspricescraper: the scrape / normalise / dedup-and-cap / append        *)
(* pipelines of scrapebensinpriser.py and scrapebensinstation.py.          *)
(*                                                                         *)
(* Representation.                                                         *)
(*   - A price is an integer number of 1/10000 kr (14.71 kr = 147100).     *)
(*     The CSV holds repr(float); float(repr(x)) = x and repr of a price   *)
(*     in 11..35 holds only digits and a dot, so parse_number gives the    *)
(*     stored float back: the Price column round-trips as the same number. *)
(*   - A date text is a record [kind, y, m, d]: kind "iso" is the text     *)
(*     YYYY-MM-DD, "dm" the text d/m, "idag"/"igar"/"forrgar" the relative *)
(*     words, "junk" a text no grammar admits, "empty" the empty text.     *)
(*   - Station / Bolag texts are strings; NaN is pandas' missing value.    *)
(***************************************************************************)
EXTENDS Integers, Sequences, FiniteSets, TLC

\* ------------------------------------------------------------------ bounds
MaxRows == 3      \* table rows served by the site during one run
MaxRuns == 2      \* invocations of main()
MaxFeed == 8      \* candidates fed to one loop of distinct candidates
MaxOld == 1       \* candidates of the run that wrote the store a loop starts from
MaxTable == 3     \* rows the priceTable of bensinstation.nu lists
MaxStore == 4     \* rows the "98" page lists over the runs that fill a store
MaxCands == 3     \* candidates fed to one loop whose orders are compared

\* ------------------------------------------------------------------ config
FUEL_URLS == <<"95 (E10)", "98", "Diesel", "Etanol">>

FuelKeys == {FUEL_URLS[i] : i \in 1..Len(FUEL_URLS)}

MIN_PRICE(f) ==
  CASE f = "95 (E10)" -> 140000
    [] f = "98" -> 140000
    [] f = "Diesel" -> 140000
    [] f = "Etanol" -> 110000
    [] OTHER -> 0

\* float("inf") for a fuel without an entry
PriceInf == 100000000

MAX_PRICE(f) ==
  CASE f = "95 (E10)" -> 270000
    [] f = "98" -> 300000
    [] f = "Diesel" -> 350000
    [] f = "Etanol" -> 350000
    [] OTHER -> PriceInf

\* ROW_LIMITS.get(fuel, None): 0 stands for None (no cap)
NoCap == 0

ROW_LIMITS(f) ==
  CASE f = "95 (E10)" -> 6
    [] f = "98" -> 3
    [] f = "Diesel" -> 6
    [] f = "Etanol" -> 3
    [] OTHER -> NoCap

SOURCE == "bensinpriser.nu"

\* ------------------------------------------------------------------ texts
\* pandas' missing value (a float NaN, not a text)
NaN == "<NaN>"

\* str(x) of a cell value
Str(x) == IF x = NaN THEN "nan" ELSE x

\* str.strip().lower() on the texts of the model
StripLower(s) ==
  CASE s = "Shell" -> "shell"
    [] s = "SHELL" -> "shell"
    [] s = "NA" -> "na"
    [] s = "Costco" -> "costco"
    [] s = "95 (E10)" -> "95 (e10)"
    [] s = "Diesel" -> "diesel"
    [] s = "Etanol" -> "etanol"
    [] OTHER -> s

\* ------------------------------------------------------------------ dates
NoDate == [kind |-> "none", y |-> 0, m |-> 0, d |-> 0]

Iso(y, m, d) == [kind |-> "iso", y |-> y, m |-> m, d |-> d]

Tok(k) == [kind |-> k, y |-> 0, m |-> 0, d |-> 0]

IsLeap(y) == (y % 4 = 0 /\ y % 100 # 0) \/ y % 400 = 0

DaysIn(y, m) ==
  IF m = 2 THEN (IF IsLeap(y) THEN 29 ELSE 28)
  ELSE IF m \in {4, 6, 9, 11} THEN 30 ELSE 31

\* date - timedelta(days=1)
MinusOneDay(t) ==
  IF t.d > 1 THEN Iso(t.y, t.m, t.d - 1)
  ELSE IF t.m > 1 THEN Iso(t.y, t.m - 1, DaysIn(t.y, t.m - 1))
  ELSE Iso(t.y - 1, 12, 31)

\* scrapebensinpriser.normalize_date_str, evaluated on the day `now`
normalize_date_str(raw, now) ==
  CASE raw.kind \in {"none", "empty"} -> NoDate
    [] raw.kind = "idag" -> Iso(now.y, now.m, now.d)
    [] raw.kind = "igar" -> MinusOneDay(now)
    [] raw.kind = "iso" -> Iso(raw.y, raw.m, raw.d)
    [] raw.kind = "dm" ->
         IF raw.m > now.m \/ (raw.m = now.m /\ raw.d > now.d)
         THEN Iso(now.y - 1, raw.m, raw.d)
         ELSE Iso(now.y, raw.m, raw.d)
    [] OTHER -> NoDate

\* ------------------------------------------------------------------ prices
\* parse_number's None
NoPrice == -1

\* a price cell of the page: a text that parses to `val`, or one that does not
PriceCell(v) == [kind |-> "num", val |-> v]

JunkCell == [kind |-> "junk", val |-> 0]

parse_number(cell) == IF cell.kind = "num" THEN cell.val ELSE NoPrice

\* f"{p:.3f}": the price in 1/1000 kr, rounded to nearest
Round3(p) == (p + 5) \div 10

\* normalize_fuel on a Fuel cell
normalize_fuel(f) ==
  IF \E k \in FuelKeys : StripLower(Str(f)) = StripLower(k)
  THEN CHOOSE k \in FuelKeys : StripLower(Str(f)) = StripLower(k)
  ELSE Str(f)

\* make_key_norm(station, price, date_iso, fuel)
make_key_norm(station, price, date_iso, fuel) ==
  << StripLower(Str(station)),
     IF price = NoPrice THEN NoPrice ELSE Round3(price),
     date_iso,
     StripLower(Str(fuel)) >>

\* the min/max test with the comparisons made inclusive
OutOfBounds_inclusive(price, fuel) ==
  price <= MIN_PRICE(fuel) \/ price >= MAX_PRICE(fuel)

\* the min/max test of scrape_one_url and of main's loop
OutOfBounds(price, fuel) == price < MIN_PRICE(fuel) \/ price > MAX_PRICE(fuel)

\* ------------------------------------------------------------------ the page
\* a row without a <small> in its price cell
NoSmall == Tok("none")

\* <tr class="table-row">: the station cell's text, the price cell's text
\* once its <small> is taken out, and the <small>'s text
PageRow(st, cell, small) == [station |-> st, price |-> cell, small |-> small]

\* the exclusion test on the station text (costco, membership, tips)
Excluded(station) == StripLower(station) = "costco"

\* the price and the date scrape_one_url reads off one row
RowDate(tr, now) ==
  IF tr.small = NoSmall THEN NoDate ELSE normalize_date_str(tr.small, now)

\* whether scrape_one_url emits the row
RowKept(tr, fuel_key, now) ==
  /\ ~Excluded(tr.station)
  /\ parse_number(tr.price) # NoPrice
  /\ RowDate(tr, now) # NoDate
  /\ ~OutOfBounds(parse_number(tr.price), normalize_fuel(fuel_key))

RowDict(tr, fuel_key, now) ==
  [Station |-> tr.station,
   Price |-> parse_number(tr.price),
   Date |-> RowDate(tr, now),
   Fuel |-> normalize_fuel(fuel_key),
   ScrapeDate |-> Iso(now.y, now.m, now.d),
   Source |-> SOURCE]

\* scrape_one_url on a page that was fetched
scrape_one_url(trs, fuel_key, now) ==
  LET kept == SelectSeq(trs, LAMBDA tr : RowKept(tr, fuel_key, now))
  IN [i \in 1..Len(kept) |-> RowDict(kept[i], fuel_key, now)]

\* ------------------------------------------------------------------ the CSV
\* the texts pandas.read_csv reads as a missing value (its default na_values)
NA_VALUES == {"", "#N/A", "N/A", "NA", "NULL", "NaN", "None", "n/a", "nan", "null"}

ReadField(v) == IF v \in NA_VALUES THEN NaN ELSE v

\* DataFrame.to_csv writes a missing value as the empty text (na_rep="")
WriteField(v) == IF v = NaN THEN "" ELSE v

\* pd.read_csv(CSV_FILE, dtype=object) on the file's rows
read_csv(rows) ==
  [i \in 1..Len(rows) |->
     [rows[i] EXCEPT !.Station = ReadField(@), !.Fuel = ReadField(@),
                     !.Source = ReadField(@)]]

\* df.to_csv(CSV_FILE, index=False): the rows as written
to_csv(df) ==
  [i \in 1..Len(df) |->
     [df[i] EXCEPT !.Station = WriteField(@), !.Fuel = WriteField(@),
                   !.Source = WriteField(@)]]

\* ------------------------------------------------------------------ main
\* normalize_date_str(r.get("Date")) or r.get("Date")
OldDate(r, now) ==
  IF normalize_date_str(r.Date, now) = NoDate
  THEN r.Date ELSE normalize_date_str(r.Date, now)

\* the key main() computes for a row of df_old
OldKey(r, now) ==
  make_key_norm(r.Station, r.Price, OldDate(r, now), normalize_fuel(r.Fuel))

existing_keys(df_old, now) == {OldKey(df_old[i], now) : i \in 1..Len(df_old)}

\* the persisted rows left out of the cap test
counts_per_fd_none(df_old, now, fuel_norm, date_iso) == 0

\* counts_per_fd.get((fuel_norm, date_iso), 0)
counts_per_fd(df_old, now, fuel_norm, date_iso) ==
  Cardinality({i \in 1..Len(df_old) :
                 /\ normalize_fuel(df_old[i].Fuel) = fuel_norm
                 /\ OldDate(df_old[i], now) = date_iso})

\* the key main()'s loop computes for a candidate
CandKey(r) == make_key_norm(r.Station, r.Price, r.Date, normalize_fuel(r.Fuel))

\* the loop's locals before the first candidate
LoopInit ==
  [pending_counts_by_fuel |-> [f \in FuelKeys |-> 0],
   pending_keys |-> {},
   to_append |-> <<>>,
   skipped_dup |-> 0, skipped_cap |-> 0, skipped_price |-> 0, added |-> 0]

\* the cap test off by one: a category at its cap takes one more row
CapReached_late(existing_count, pending_count, cap) ==
  cap # NoCap /\ existing_count + pending_count > cap

\* the cap test: cap is not None and existing_count + pending_count >= cap
CapReached(existing_count, pending_count, cap) ==
  cap # NoCap /\ existing_count + pending_count >= cap

\* the loop body with a cap rejection counted under the duplicates
LoopStep_capAsDup(acc, r, df_old, now) ==
  LET fuel_norm == normalize_fuel(r.Fuel)
      key == CandKey(r)
  IN IF key \in existing_keys(df_old, now) \/ key \in acc.pending_keys
     THEN [acc EXCEPT !.skipped_dup = @ + 1]
     ELSE IF OutOfBounds(r.Price, fuel_norm)
     THEN [acc EXCEPT !.skipped_price = @ + 1]
     ELSE IF CapReached(counts_per_fd(df_old, now, fuel_norm, r.Date),
                        acc.pending_counts_by_fuel[fuel_norm],
                        ROW_LIMITS(fuel_norm))
     THEN [acc EXCEPT !.skipped_dup = @ + 1]
     ELSE [acc EXCEPT !.pending_keys = @ \cup {key},
                      !.pending_counts_by_fuel[fuel_norm] = @ + 1,
                      !.to_append = Append(@, [r EXCEPT !.Fuel = fuel_norm]),
                      !.added = @ + 1]

\* one iteration of main()'s loop over the candidates
LoopStep(acc, r, df_old, now) ==
  LET fuel_norm == normalize_fuel(r.Fuel)
      key == CandKey(r)
  IN IF key \in existing_keys(df_old, now) \/ key \in acc.pending_keys
     THEN [acc EXCEPT !.skipped_dup = @ + 1]
     ELSE IF OutOfBounds(r.Price, fuel_norm)
     THEN [acc EXCEPT !.skipped_price = @ + 1]
     ELSE IF CapReached(counts_per_fd(df_old, now, fuel_norm, r.Date),
                        acc.pending_counts_by_fuel[fuel_norm],
                        ROW_LIMITS(fuel_norm))
     THEN [acc EXCEPT !.skipped_cap = @ + 1]
     ELSE [acc EXCEPT !.pending_keys = @ \cup {key},
                      !.pending_counts_by_fuel[fuel_norm] = @ + 1,
                      !.to_append = Append(@, [r EXCEPT !.Fuel = fuel_norm]),
                      !.added = @ + 1]

RECURSIVE LoopFrom(_, _, _, _)
LoopFrom(acc, cands, df_old, now) ==
  IF cands = <<>> THEN acc
  ELSE LoopFrom(LoopStep(acc, Head(cands), df_old, now), Tail(cands), df_old, now)

\* the whole loop of main() over the candidates
DedupCap(cands, df_old, now) == LoopFrom(LoopInit, cands, df_old, now)

\* pd.concat([df_old, df_append]) when the file exists, df_append otherwise
Combined(exists, df_old, to_append) ==
  IF to_append = <<>> THEN df_old
  ELSE IF exists THEN df_old \o to_append ELSE to_append

\* ------------------------------------------------------------------ inputs
\* the day of the runs (date.today())
Todays == {[y |-> 2025, m |-> 3, d |-> 1]}

\* the rows a fuel's page may come to serve: the "98" page varies the station,
\* the price and the date of a base row one at a time; the other pages serve
\* their base row
BaseRow(f) == PageRow("Shell", PriceCell(MIN_PRICE(f)), Tok("idag"))

PageRows(f) ==
  IF f # "98" THEN {BaseRow(f)}
  ELSE {BaseRow(f)}
       \cup {PageRow(st, PriceCell(MIN_PRICE(f)), Tok("idag")) :
               st \in {"SHELL", "", "NA", "Costco"}}
       \cup {PageRow("Shell", c, Tok("idag")) :
               c \in {PriceCell(MIN_PRICE(f) - 4), PriceCell(MAX_PRICE(f)),
                      PriceCell(MAX_PRICE(f) + 4), JunkCell}}
       \cup {PageRow("Shell", PriceCell(MIN_PRICE(f)), t) :
               t \in {Tok("igar"), Tok("junk"), NoSmall}}

\* the rows of the instances that vary the price alone: on the "98" and the
\* "Etanol" page, the base row priced just below the minimum, at the minimum,
\* at the maximum and just above the maximum
PriceRows(f) ==
  IF f \notin {"98", "Etanol"} THEN {}
  ELSE {PageRow("Shell", PriceCell(p), Tok("idag")) :
          p \in {MIN_PRICE(f) - 4, MIN_PRICE(f), MAX_PRICE(f), MAX_PRICE(f) + 4}}

\* the rows the site serves over all its pages
SiteRows(s) == Len(s["95 (E10)"]) + Len(s["98"]) + Len(s["Diesel"]) + Len(s["Etanol"])

\* ------------------------------------------------------------------ state
VARIABLES
  site,         \* the pages bensinpriser.nu serves: fuel -> table rows
  file,         \* CSV_FILE on disk: [exists, header, rows]
  today,        \* date.today()
  pc,           \* where main() is
  runs,         \* invocations so far
  fuel_i,       \* index in FUEL_URLS of the next page to fetch
  page,         \* the rows served to this run, each with its fuel
  df_old,       \* main()'s df_old
  candidates,   \* main()'s candidates
  acc,          \* the loop's locals once the loop is over
  df_combined,  \* main()'s df_combined
  summary,      \* the summary the last completed run printed
  file0,        \* the file's rows when this run read it
  prev,         \* the site the run before this one saw, and whether it returned
  table,        \* the priceTable rows bensinstation.nu serves
  tfile,        \* bensinstation_prices.csv on disk: [exists, header, rows]
  tpc,          \* where scrapebensinstation.main() is
  truns,        \* its invocations so far
  scraped_rows, \* what scrape_table returned
  df_out,       \* save_rows_scraped's df_out
  raw_date,     \* a date text handed to the date normalizers
  date_str,     \* what normalize_date_str returned for it
  date_token    \* what normalize_date_token returned for it

\* the state of scrapebensinstation.py
tvars == <<table, tfile, tpc, truns, scraped_rows, df_out>>

\* the state of scrapebensinpriser.py
pvars == <<site, file, today, pc, runs, fuel_i, page, df_old, candidates, acc,
           df_combined, summary, file0, prev>>

\* a date text and what the two normalizers made of it
dvars == <<raw_date, date_str, date_token>>

vars == <<pvars, tvars, dvars>>

\* a normalizer that has not been called
NotCalled == Tok("not called")

\* no date text has been normalized on its own
DInit ==
  /\ raw_date = Tok("none")
  /\ date_str = NotCalled
  /\ date_token = NotCalled

\* scrapebensinstation.py has not been run
TInit ==
  /\ table = <<>>
  /\ tfile = [exists |-> FALSE, header |-> FALSE, rows |-> <<>>]
  /\ tpc = "idle"
  /\ truns = 0
  /\ scraped_rows = <<>>
  /\ df_out = <<>>

NoSummary == [printed |-> FALSE, added |-> 0, skipped_dup |-> 0,
              skipped_cap |-> 0, skipped_price |-> 0, total |-> 0]

Init ==
  /\ site = [f \in FuelKeys |-> <<>>]
  /\ file = [exists |-> FALSE, header |-> FALSE, rows |-> <<>>]
  /\ today \in Todays
  /\ pc = "idle"
  /\ runs = 0
  /\ fuel_i = 1
  /\ page = <<>>
  /\ df_old = <<>>
  /\ candidates = <<>>
  /\ acc = LoopInit
  /\ df_combined = <<>>
  /\ summary = NoSummary
  /\ file0 = <<>>
  /\ prev = [returned |-> FALSE, site |-> [f \in FuelKeys |-> <<>>]]
  /\ TInit
  /\ DInit

\* main() is not running: never started, returned, ended on an exception, killed
Ended == {"idle", "done", "read_raised", "fetch_raised", "crashed"}

\* between two runs the site lists one more row on one of its pages
SiteUpdate ==
  /\ pc \in Ended
  /\ runs < MaxRuns
  /\ SiteRows(site) < MaxRows
  /\ \E f \in FuelKeys : \E tr \in PageRows(f) :
       site' = [site EXCEPT ![f] = Append(@, tr)]
  /\ UNCHANGED <<file, today, pc, runs, fuel_i, page, df_old, candidates, acc,
                 df_combined, summary, file0, prev, tvars, dvars>>

\* between two runs the site lists one more row, of those that differ in price alone
SiteUpdatePrice ==
  /\ pc \in Ended
  /\ runs < MaxRuns
  /\ SiteRows(site) < MaxRows
  /\ \E f \in FuelKeys : \E tr \in PriceRows(f) :
       site' = [site EXCEPT ![f] = Append(@, tr)]
  /\ UNCHANGED <<file, today, pc, runs, fuel_i, page, df_old, candidates, acc,
                 df_combined, summary, file0, prev, tvars, dvars>>

\* main() starts: the file is read when it exists. read_csv raises
\* EmptyDataError on a file without a header line, and main() ends there.
Start ==
  /\ pc \in Ended
  /\ runs < MaxRuns
  /\ runs' = runs + 1
  /\ fuel_i' = 1
  /\ page' = <<>>
  /\ candidates' = <<>>
  /\ acc' = LoopInit
  /\ df_combined' = <<>>
  /\ summary' = NoSummary
  /\ file0' = file.rows
  /\ prev' = IF pc = "done" THEN prev ELSE [prev EXCEPT !.returned = FALSE]
  /\ IF file.exists /\ ~file.header
     THEN pc' = "read_raised" /\ df_old' = <<>>
     ELSE pc' = "scrape" /\ df_old' = read_csv(file.rows)
  /\ UNCHANGED <<site, file, today, tvars, dvars>>

\* scrape_one_url for the next fuel: the fetch succeeds
Fetch ==
  /\ pc = "scrape"
  /\ fuel_i <= Len(FUEL_URLS)
  /\ LET f == FUEL_URLS[fuel_i]
     IN /\ page' = page \o [i \in 1..Len(site[f]) |-> [fuel |-> f, tr |-> site[f][i]]]
        /\ candidates' = candidates \o scrape_one_url(site[f], f, today)
  /\ fuel_i' = fuel_i + 1
  /\ UNCHANGED <<site, file, today, pc, runs, df_old, acc, df_combined, summary, file0, prev, tvars, dvars>>

\* scrape_one_url for the next fuel: requests.get or raise_for_status raises,
\* nothing in main() catches it, and main() ends there
FetchFail ==
  /\ pc = "scrape"
  /\ fuel_i <= Len(FUEL_URLS)
  /\ pc' = "fetch_raised"
  /\ UNCHANGED <<site, file, today, runs, fuel_i, page, df_old, candidates, acc,
                 df_combined, summary, file0, prev, tvars, dvars>>

\* the loop over the candidates, and df_combined
Loop ==
  /\ pc = "scrape"
  /\ fuel_i > Len(FUEL_URLS)
  /\ LET a == DedupCap(candidates, df_old, today)
     IN /\ acc' = a
        /\ df_combined' = Combined(file.exists, df_old, a.to_append)
        /\ pc' = IF a.to_append = <<>> THEN "summary" ELSE "to_csv"
  /\ UNCHANGED <<site, file, today, runs, fuel_i, page, df_old, candidates, summary, file0, prev, tvars, dvars>>

\* to_csv opens CSV_FILE for writing, which truncates it
WriteOpen ==
  /\ pc = "to_csv"
  /\ file' = [exists |-> TRUE, header |-> FALSE, rows |-> <<>>]
  /\ pc' = "header"
  /\ UNCHANGED <<site, today, runs, fuel_i, page, df_old, candidates, acc,
                 df_combined, summary, file0, prev, tvars, dvars>>

\* to_csv writes the header line
WriteHeader ==
  /\ pc = "header"
  /\ file' = [file EXCEPT !.header = TRUE]
  /\ pc' = "rows"
  /\ UNCHANGED <<site, today, runs, fuel_i, page, df_old, candidates, acc,
                 df_combined, summary, file0, prev, tvars, dvars>>

\* to_csv writes the next row
WriteRow ==
  /\ pc = "rows"
  /\ Len(file.rows) < Len(df_combined)
  /\ file' = [file EXCEPT !.rows = Append(@, to_csv(df_combined)[Len(@) + 1])]
  /\ UNCHANGED <<site, today, pc, runs, fuel_i, page, df_old, candidates, acc,
                 df_combined, summary, file0, prev, tvars, dvars>>

\* to_csv returns
WriteClose ==
  /\ pc = "rows"
  /\ Len(file.rows) = Len(df_combined)
  /\ pc' = "summary"
  /\ UNCHANGED <<site, file, today, runs, fuel_i, page, df_old, candidates, acc,
                 df_combined, summary, file0, prev, tvars, dvars>>

\* the summary is printed and main() returns
Summary ==
  /\ pc = "summary"
  /\ summary' = [printed |-> TRUE, added |-> acc.added,
                 skipped_dup |-> acc.skipped_dup, skipped_cap |-> acc.skipped_cap,
                 skipped_price |-> acc.skipped_price, total |-> Len(df_combined)]
  /\ pc' = "done"
  /\ prev' = [returned |-> TRUE, site |-> site]
  /\ UNCHANGED <<site, file, today, runs, fuel_i, page, df_old, candidates, acc,
                 df_combined, file0, tvars, dvars>>

\* the process dies (kill, power loss, full disk) while to_csv is writing
Crash ==
  /\ pc \in {"header", "rows"}
  /\ pc' = "crashed"
  /\ UNCHANGED <<site, file, today, runs, fuel_i, page, df_old, candidates, acc,
                 df_combined, summary, file0, prev, tvars, dvars>>

Next ==
  \/ SiteUpdate
  \/ Start
  \/ Fetch
  \/ FetchFail
  \/ Loop
  \/ WriteOpen
  \/ WriteHeader
  \/ WriteRow
  \/ WriteClose
  \/ Summary
  \/ Crash

Spec == Init /\ [][Next]_vars

\* the same program on a site whose rows differ in price alone
NextPrice ==
  \/ SiteUpdatePrice
  \/ Start
  \/ Fetch
  \/ FetchFail
  \/ Loop
  \/ WriteOpen
  \/ WriteHeader
  \/ WriteRow
  \/ WriteClose
  \/ Summary
  \/ Crash

SpecPrice == Init /\ [][NextPrice]_vars

\* ------------------------------------------------------------------ the loop alone
\* main() is inside its loop: the file was read, the pages were fetched
InLoop(rows) ==
  /\ site = [f \in FuelKeys |-> <<>>]
  /\ file = [exists |-> rows # <<>>, header |-> rows # <<>>, rows |-> rows]
  /\ today \in Todays
  /\ pc = "loop"
  /\ runs = 1
  /\ fuel_i = Len(FUEL_URLS) + 1
  /\ page = <<>>
  /\ df_old = read_csv(rows)
  /\ candidates = <<>>
  /\ acc = LoopInit
  /\ df_combined = <<>>
  /\ summary = NoSummary
  /\ file0 = rows
  /\ prev = [returned |-> FALSE, site |-> [f \in FuelKeys |-> <<>>]]
  /\ TInit
  /\ DInit

\* the loop takes its next candidate r
Iterate(r) ==
  /\ pc = "loop"
  /\ candidates' = Append(candidates, r)
  /\ acc' = LoopStep(acc, r, df_old, today)
  /\ UNCHANGED <<site, file, today, pc, runs, fuel_i, page, df_old, df_combined,
                 summary, file0, prev, tvars, dvars>>

\* the candidate scrape_one_url makes of a row with a usable price and date
Cand(st, price, tok, f, now) == RowDict(PageRow(st, PriceCell(price), tok), f, now)

\* the file a first run writes when it accepts the candidates cands
Written(cands, now) == to_csv(Combined(FALSE, <<>>, DedupCap(cands, <<>>, now).to_append))

\* --- a loop over pairwise distinct, in-bounds candidates of two categories
\* the k-th candidate comes from the k-th station
StationNo(k) ==
  CASE k = 1 -> "st1" [] k = 2 -> "st2" [] k = 3 -> "st3"
    [] k = 4 -> "st4" [] k = 5 -> "st5" [] k = 6 -> "st6"
    [] k = 7 -> "st7" [] k = 8 -> "st8" [] k = 9 -> "st9"
    [] OTHER -> "st10"

CapFuels == {"98", "95 (E10)"}

\* the store holds nothing, or one Diesel row: no row of the fed categories
InitCap ==
  \E now \in Todays :
    \E rows \in {<<>>, Written(<<Cand("Shell", MIN_PRICE("Diesel"), Tok("idag"), "Diesel", now)>>, now)} :
      InLoop(rows)

IterateDistinct ==
  /\ Len(candidates) < MaxFeed
  /\ \E f \in CapFuels : \E tok \in {Tok("idag"), Tok("igar")} :
       Iterate(Cand(StationNo(Len(candidates) + 1), MIN_PRICE(f), tok, f, today))

NextCap == IterateDistinct

SpecCap == InitCap /\ [][NextCap]_vars

\* --- a loop over any candidates, on the store a first run wrote
PermStations == {"Shell", "okq8"}

\* two stations on two dates, and one of them once more in another spelling
PermCands(now) ==
  {Cand(st, MIN_PRICE("98"), tok, "98", now) :
     st \in PermStations, tok \in {Tok("idag"), Tok("igar")}}
  \cup {Cand("SHELL", MIN_PRICE("98"), Tok("igar"), "98", now)}

SeqsUpTo(S, n) == UNION {[1..k -> S] : k \in 0..n}

InitPerm ==
  \E now \in Todays : \E old \in SeqsUpTo(PermCands(now), MaxOld) :
    InLoop(Written(old, now))

IterateAny ==
  /\ Len(candidates) < MaxCands
  /\ \E r \in PermCands(today) : Iterate(r)

NextPerm == IterateAny

SpecPerm == InitPerm /\ [][NextPerm]_vars

\* ------------------------------------------------------------------ scrapebensinstation.py
\* datetime(year, month, day) does not raise
ValidDate(y, m, d) == y \in 1..9999 /\ m \in 1..12 /\ d \in 1..DaysIn(y, m)

\* the year inference with today's own day and month counted as later
InferYear_todayIsLater(month, day, now) ==
  IF month > now.m \/ (month = now.m /\ day >= now.d) THEN now.y - 1 ELSE now.y

\* the year of a day and a month that come without one
InferYear(month, day, now) ==
  IF month > now.m \/ (month = now.m /\ day > now.d) THEN now.y - 1 ELSE now.y

\* try: return datetime(...).date().isoformat() / except: pass, then the
\* patterns that follow do not match either
DateOrNone(y, m, d) == IF ValidDate(y, m, d) THEN Iso(y, m, d) ELSE NoDate

\* scrapebensinstation.normalize_date_token, evaluated on the day `now`.
\* An ISO-shaped token that is no date falls through to the last pattern,
\* (\d{1,2})\D+(\d{1,2}), which reads the year's last two digits as the day.
normalize_date_token(raw, now) ==
  CASE raw.kind \in {"none", "empty"} -> NoDate
    [] raw.kind = "idag" -> Iso(now.y, now.m, now.d)
    [] raw.kind = "igar" -> MinusOneDay(now)
    [] raw.kind = "forrgar" -> MinusOneDay(MinusOneDay(now))
    [] raw.kind = "iso" ->
         IF ValidDate(raw.y, raw.m, raw.d) THEN Iso(raw.y, raw.m, raw.d)
         ELSE DateOrNone(InferYear(raw.m, raw.y % 100, now), raw.m, raw.y % 100)
    [] raw.kind = "dm" -> DateOrNone(InferYear(raw.m, raw.d, now), raw.m, raw.d)
    [] OTHER -> NoDate

\* normalize_date_token(raw) or raw
DateOrRaw(raw, now) ==
  IF normalize_date_token(raw, now) = NoDate THEN raw ELSE normalize_date_token(raw, now)

\* make_key(bolag, bensinpris, dieselpris, datum): the texts, stripped
make_key(bolag, bensinpris, dieselpris, datum) == <<bolag, bensinpris, dieselpris, datum>>

\* a <tr> of the priceTable: the texts of its cells but the last, the text of
\* its last cell, and its <small>, which sits inside a <td> or beside them.
\* The rows of the model have five cells, or three.
TableRow(cells, last, small, small_in_td) ==
  [cells |-> cells, last |-> last, small |-> small, small_in_td |-> small_in_td]

\* tr.find("small") once every <small> inside a <td> has been extracted
small_tag(tr) == IF tr.small_in_td THEN NoSmall ELSE tr.small

\* the row scrape_table emits for a <tr> with at least four cells
TableRowOut(tr, now) ==
  [Bolag |-> tr.cells[1], Bensinpris |-> tr.cells[2], Dieselpris |-> tr.cells[3],
   Etanol |-> tr.cells[4],
   Datum |-> IF small_tag(tr) # NoSmall THEN DateOrRaw(small_tag(tr), now)
             ELSE DateOrRaw(tr.last, now)]

\* scrape_table on a page that was fetched and holds the table
scrape_table(trs, now) ==
  LET kept == SelectSeq(trs, LAMBDA tr : Len(tr.cells) + 1 >= 4)
  IN [i \in 1..Len(kept) |-> TableRowOut(kept[i], now)]

\* pd.read_csv(CSV_FILE, dtype=str).fillna("") on the file's rows
FillNa(v) == IF ReadField(v) = NaN THEN "" ELSE v

read_csv_fillna(rows) ==
  [i \in 1..Len(rows) |->
     [rows[i] EXCEPT !.Bolag = FillNa(@), !.Bensinpris = FillNa(@),
                     !.Dieselpris = FillNa(@), !.Etanol = FillNa(@)]]

\* the Datum save_rows_scraped stores: a text of the shape YYYY-MM-DD as it
\* is, another text normalized, or as it is when that fails
DatumIso(datum, now) == IF datum.kind = "iso" THEN datum ELSE DateOrRaw(datum, now)

SaveInit(df) ==
  [existing_keys |-> {make_key(df[i].Bolag, df[i].Bensinpris, df[i].Dieselpris, df[i].Datum) :
                        i \in 1..Len(df)},
   to_add |-> <<>>, skipped |-> 0]

\* one iteration of save_rows_scraped's loop
SaveStep(st, row, now) ==
  LET datum_iso == DatumIso(row.Datum, now)
      key == make_key(row.Bolag, row.Bensinpris, row.Dieselpris, datum_iso)
  IN IF key \in st.existing_keys
     THEN [st EXCEPT !.skipped = @ + 1]
     ELSE [st EXCEPT !.to_add = Append(@, [Bolag |-> row.Bolag,
                                           Bensinpris |-> row.Bensinpris,
                                           Dieselpris |-> row.Dieselpris,
                                           Etanol |-> row.Etanol,
                                           Datum |-> datum_iso,
                                           ScrapeDate |-> Iso(now.y, now.m, now.d)]),
                     !.existing_keys = @ \cup {key}]

RECURSIVE SaveFrom(_, _, _)
SaveFrom(st, rows, now) ==
  IF rows = <<>> THEN st
  ELSE SaveFrom(SaveStep(st, Head(rows), now), Tail(rows), now)

\* save_rows_scraped's loop over the scraped rows, on the store df
save_rows_scraped(rows, df, now) == SaveFrom(SaveInit(df), rows, now)

\* df_out.to_csv(CSV_FILE, index=False): the rows as written
to_csv_out(df) ==
  [i \in 1..Len(df) |->
     [df[i] EXCEPT !.Bolag = WriteField(@), !.Bensinpris = WriteField(@),
                   !.Dieselpris = WriteField(@), !.Etanol = WriteField(@)]]

\* the d/m text
Dm(d, m) == [kind |-> "dm", y |-> 0, m |-> m, d |-> d]

\* the rows the table lists: a base row, and rows that differ from it in the
\* company, in the date text of the last cell, in a <small>, or in length
BaseTr == TableRow(<<"OKQ8", "16,49", "17,99", "12,49">>, Tok("idag"), NoSmall, TRUE)

TableRows ==
  {BaseTr,
   [BaseTr EXCEPT !.cells[1] = "NA"],
   [BaseTr EXCEPT !.cells = <<"OKQ8", "16,49">>],
   [BaseTr EXCEPT !.last = Tok("junk"), !.small = Tok("igar")],
   [BaseTr EXCEPT !.last = Tok("junk"), !.small = Tok("igar"), !.small_in_td = FALSE]}
  \cup {[BaseTr EXCEPT !.last = t] :
          t \in {Tok("igar"), Tok("forrgar"), Tok("junk"), Tok("empty"),
                 Dm(31, 2), Dm(15, 9), Iso(2025, 2, 30), Iso(2025, 13, 45)}}

\* scrapebensinstation.main() is not running
TEnded == {"idle", "done", "raised", "crashed"}

\* between two runs the table lists one more row
TableUpdate ==
  /\ tpc \in TEnded
  /\ truns < MaxRuns
  /\ Len(table) < MaxTable
  /\ \E tr \in TableRows : table' = Append(table, tr)
  /\ UNCHANGED <<tfile, tpc, truns, scraped_rows, df_out>>
  /\ UNCHANGED <<pvars, dvars>>

\* main() starts and scrape_table returns
TScrape ==
  /\ tpc \in TEnded
  /\ truns < MaxRuns
  /\ truns' = truns + 1
  /\ scraped_rows' = scrape_table(table, today)
  /\ df_out' = <<>>
  /\ tpc' = "save"
  /\ UNCHANGED <<table, tfile>>
  /\ UNCHANGED <<pvars, dvars>>

\* main() starts and scrape_table raises: the request fails, or the page
\* holds no priceTable
TScrapeFail ==
  /\ tpc \in TEnded
  /\ truns < MaxRuns
  /\ truns' = truns + 1
  /\ scraped_rows' = <<>>
  /\ df_out' = <<>>
  /\ tpc' = "raised"
  /\ UNCHANGED <<table, tfile>>
  /\ UNCHANGED <<pvars, dvars>>

\* save_rows_scraped up to its to_csv; read_csv raises EmptyDataError on a
\* file without a header line
TSave ==
  /\ tpc = "save"
  /\ IF tfile.exists /\ ~tfile.header
     THEN tpc' = "raised" /\ df_out' = <<>>
     ELSE LET t_df_old == read_csv_fillna(tfile.rows)
              st == save_rows_scraped(scraped_rows, t_df_old, today)
          IN /\ df_out' = t_df_old \o st.to_add
             /\ tpc' = IF Len(st.to_add) > 0 THEN "to_csv" ELSE "done"
  /\ UNCHANGED <<table, tfile, truns, scraped_rows>>
  /\ UNCHANGED <<pvars, dvars>>

\* to_csv opens CSV_FILE for writing, which empties it
TWriteOpen ==
  /\ tpc = "to_csv"
  /\ tfile' = [exists |-> TRUE, header |-> FALSE, rows |-> <<>>]
  /\ tpc' = "header"
  /\ UNCHANGED <<table, truns, scraped_rows, df_out>>
  /\ UNCHANGED <<pvars, dvars>>

TWriteHeader ==
  /\ tpc = "header"
  /\ tfile' = [tfile EXCEPT !.header = TRUE]
  /\ tpc' = "rows"
  /\ UNCHANGED <<table, truns, scraped_rows, df_out>>
  /\ UNCHANGED <<pvars, dvars>>

TWriteRow ==
  /\ tpc = "rows"
  /\ Len(tfile.rows) < Len(df_out)
  /\ tfile' = [tfile EXCEPT !.rows = Append(@, to_csv_out(df_out)[Len(@) + 1])]
  /\ UNCHANGED <<table, tpc, truns, scraped_rows, df_out>>
  /\ UNCHANGED <<pvars, dvars>>

\* to_csv returns, the summary is printed and main() returns
TWriteClose ==
  /\ tpc = "rows"
  /\ Len(tfile.rows) = Len(df_out)
  /\ tpc' = "done"
  /\ UNCHANGED <<table, tfile, truns, scraped_rows, df_out>>
  /\ UNCHANGED <<pvars, dvars>>

\* the process dies while to_csv is writing
TCrash ==
  /\ tpc \in {"header", "rows"}
  /\ tpc' = "crashed"
  /\ UNCHANGED <<table, tfile, truns, scraped_rows, df_out>>
  /\ UNCHANGED <<pvars, dvars>>

NextStation ==
  \/ TableUpdate
  \/ TScrape
  \/ TScrapeFail
  \/ TSave
  \/ TWriteOpen
  \/ TWriteHeader
  \/ TWriteRow
  \/ TWriteClose
  \/ TCrash

SpecStation == Init /\ [][NextStation]_vars

\* ------------------------------------------------------------------ the normalizers alone
\* the days the normalizers are called on
DateTodays ==
  {[y |-> 2025, m |-> 1, d |-> 10], [y |-> 2025, m |-> 3, d |-> 1],
   [y |-> 2024, m |-> 2, d |-> 29], [y |-> 2024, m |-> 3, d |-> 1],
   [y |-> 2025, m |-> 12, d |-> 31]}

\* the date texts they are called on: the relative words, texts without a
\* date, d/m texts and YYYY-MM-DD texts, of days that exist and of days that
\* do not
DateToks ==
  {Tok("idag"), Tok("igar"), Tok("forrgar"), Tok("junk"), Tok("empty"), Tok("none")}
  \cup {Dm(d, m) : d \in {0, 1, 10, 15, 28, 29, 30, 31}, m \in {0, 1, 2, 3, 9, 12, 13}}
  \cup {Iso(y, m, d) : y \in {2024, 2025}, m \in {2, 13}, d \in {28, 29, 30, 45}}

InitDates ==
  /\ site = [f \in FuelKeys |-> <<>>]
  /\ file = [exists |-> FALSE, header |-> FALSE, rows |-> <<>>]
  /\ today \in DateTodays
  /\ pc = "idle"
  /\ runs = 0
  /\ fuel_i = 1
  /\ page = <<>>
  /\ df_old = <<>>
  /\ candidates = <<>>
  /\ acc = LoopInit
  /\ df_combined = <<>>
  /\ summary = NoSummary
  /\ file0 = <<>>
  /\ prev = [returned |-> FALSE, site |-> [f \in FuelKeys |-> <<>>]]
  /\ TInit
  /\ raw_date \in DateToks
  /\ date_str = NotCalled
  /\ date_token = NotCalled

\* normalize_date_str(raw_date) is called
CallStr ==
  /\ date_str = NotCalled
  /\ date_str' = normalize_date_str(raw_date, today)
  /\ UNCHANGED <<pvars, tvars, raw_date, date_token>>

\* normalize_date_token(raw_date) is called
CallToken ==
  /\ date_token = NotCalled
  /\ date_token' = normalize_date_token(raw_date, today)
  /\ UNCHANGED <<pvars, tvars, raw_date, date_str>>

NextDates ==
  \/ CallStr
  \/ CallToken

SpecDates == InitDates /\ [][NextDates]_vars

\* ------------------------------------------------------------------ runs that fill a store
\* the rows the "98" page comes to list: the k-th is of the k-th station, seen
\* today or yesterday, or of a station without a name, seen today
StoreRows(k) ==
  {PageRow(StationNo(k), PriceCell(MIN_PRICE("98")), tok) : tok \in {Tok("idag"), Tok("igar")}}
  \cup {PageRow("", PriceCell(MIN_PRICE("98")), Tok("idag"))}

\* between two runs the "98" page lists one more row
SiteUpdateStore ==
  /\ pc \in Ended
  /\ runs < MaxRuns
  /\ SiteRows(site) < MaxStore
  /\ \E tr \in StoreRows(SiteRows(site) + 1) :
       site' = [site EXCEPT !["98"] = Append(@, tr)]
  /\ UNCHANGED <<file, today, pc, runs, fuel_i, page, df_old, candidates, acc,
                 df_combined, summary, file0, prev, tvars, dvars>>

NextStore ==
  \/ SiteUpdateStore
  \/ Start
  \/ Fetch
  \/ FetchFail
  \/ Loop
  \/ WriteOpen
  \/ WriteHeader
  \/ WriteRow
  \/ WriteClose
  \/ Summary
  \/ Crash

SpecStore == Init /\ [][NextStore]_vars

\* ------------------------------------------------------------------ claims
Range(q) == {q[i] : i \in 1..Len(q)}

IsPrefix(p, q) == Len(p) <= Len(q) /\ SubSeq(q, 1, Len(p)) = p

\* the run has decided its candidates and has not returned yet
AfterLoop == pc \in {"to_csv", "header", "rows", "summary"}

\* the identity key of a stored row, read off the row's texts
StoredKey(r) == make_key_norm(r.Station, r.Price, r.Date, r.Fuel)

\* C1 (as claimed): once a run has written its snapshot, every row the file
\* held when the run read it is still there, at the same place and with the
\* same field texts, and the new rows follow the old ones.
C1_AppendOnly == pc \in {"summary", "done"} => IsPrefix(file0, file.rows)

\* C2 (as claimed): no two rows of the store have the same identity key.
C2_UniqueKeys ==
  \A i, j \in 1..Len(file.rows) :
    i # j => StoredKey(file.rows[i]) # StoredKey(file.rows[j])

\* C3 (as claimed): a run that follows a run that returned, on the same site
\* and the same day, accepts nothing and counts every candidate a duplicate.
C3_Idempotent ==
  (AfterLoop /\ prev.returned /\ prev.site = site)
    => (acc.added = 0 /\ acc.skipped_dup = Len(candidates))

\* the price a served row shows, and whether its other fields are usable
ShownPrice(e) == parse_number(e.tr.price)

Usable(e) ==
  /\ ~Excluded(e.tr.station)
  /\ ShownPrice(e) # NoPrice
  /\ RowDate(e.tr, today) # NoDate

\* C5: no stored row has a price below its fuel's minimum or above its
\* maximum; a served row with such a price is not among the rows a run
\* appends; and a served row priced exactly at the minimum or the maximum
\* becomes a candidate that the bounds test does not reject (it is accepted,
\* or is a duplicate, or the cap is reached).
C5_Bounds ==
  /\ \A r \in Range(file.rows) :
       MIN_PRICE(r.Fuel) <= r.Price /\ r.Price <= MAX_PRICE(r.Fuel)
  /\ (AfterLoop \/ pc = "done") =>
       \A e \in Range(page) :
         /\ (Usable(e) /\ (ShownPrice(e) < MIN_PRICE(e.fuel)
                           \/ ShownPrice(e) > MAX_PRICE(e.fuel)))
              => RowDict(e.tr, e.fuel, today) \notin Range(acc.to_append)
         /\ (Usable(e) /\ ShownPrice(e) \in {MIN_PRICE(e.fuel), MAX_PRICE(e.fuel)})
              => /\ RowDict(e.tr, e.fuel, today) \in Range(candidates)
                 /\ acc.skipped_price = 0
                 /\ \/ CandKey(RowDict(e.tr, e.fuel, today)) \in acc.pending_keys
                    \/ CandKey(RowDict(e.tr, e.fuel, today)) \in existing_keys(df_old, today)
                    \/ acc.skipped_cap > 0

\* C5 witness: a run returned after the site served a row below the minimum,
\* a row above the maximum and a row exactly at the maximum, which is stored.
C5_Witness ==
  /\ pc = "done"
  /\ \E e \in Range(page) : Usable(e) /\ ShownPrice(e) < MIN_PRICE(e.fuel)
  /\ \E e \in Range(page) : Usable(e) /\ ShownPrice(e) > MAX_PRICE(e.fuel)
  /\ \E e \in Range(page) :
       /\ Usable(e) /\ ShownPrice(e) = MAX_PRICE(e.fuel)
       /\ RowDict(e.tr, e.fuel, today) \in Range(file.rows)

\* the three rows of the end-to-end scenario
RowLow(e) == Usable(e) /\ ShownPrice(e) < MIN_PRICE(e.fuel)

RowPersisted(e) ==
  /\ RowKept(e.tr, e.fuel, today)
  /\ RowDict(e.tr, e.fuel, today) \in Range(file0)

RowNew(e) ==
  /\ RowKept(e.tr, e.fuel, today)
  /\ \A r \in Range(file0) : StoredKey(r) # CandKey(RowDict(e.tr, e.fuel, today))
  /\ Cardinality({i \in 1..Len(file0) :
                    /\ file0[i].Fuel = e.fuel
                    /\ file0[i].Date = RowDate(e.tr, today)}) < ROW_LIMITS(e.fuel)

C6_Scenario ==
  /\ Len(page) = 3
  /\ \E i, j, k \in 1..3 :
       /\ i # j /\ j # k /\ i # k
       /\ RowLow(page[i]) /\ RowNew(page[j]) /\ RowPersisted(page[k])

\* C6 (as claimed): on a page with one row below the minimum, one valid new
\* row and one row identical to a persisted record, the summary reports 1
\* accepted, 1 duplicate and 1 out of bounds, and the store grows by one row.
C6_Counts ==
  (pc = "done" /\ C6_Scenario) =>
     /\ summary.added = 1
     /\ summary.skipped_dup = 1
     /\ summary.skipped_price = 1
     /\ Len(file.rows) = Len(file0) + 1

\* C7 (as claimed): when the fetch of one source fails, the candidates of the
\* sources fetched before it in the same run are still in the store once the
\* run is over.
C7_FetchIsolation ==
  pc = "fetch_raised" =>
    \A c \in Range(candidates) :
      CandKey(c) \in existing_keys(read_csv(file.rows), today)

\* C8 (as claimed): after a crash during the write the file holds the rows of
\* the prior snapshot or the rows of the new one.
C8_Atomic ==
  pc = "crashed" => (file.rows = file0 \/ file.rows = to_csv(df_combined))

Min(a, b) == IF a < b THEN a ELSE b

\* the candidates of category f, in arrival order
OfFuel(q, f) == SelectSeq(q, LAMBDA r : r.Fuel = f)

\* C4: with no persisted row of the fed categories, a loop fed M pairwise
\* distinct in-bounds candidates of a category whose cap is N has accepted the
\* first min(M, N) of them, in arrival order, and has counted the other
\* M - min(M, N) as cap-reached; nothing is counted duplicate or out of bounds.
C4_Cap ==
  pc = "loop" =>
    /\ \A f \in CapFuels :
         LET M == Len(OfFuel(candidates, f))
             N == ROW_LIMITS(f)
         IN /\ acc.pending_counts_by_fuel[f] = Min(M, N)
            /\ OfFuel(acc.to_append, f) = SubSeq(OfFuel(candidates, f), 1, Min(M, N))
    /\ acc.added = Len(acc.to_append)
    /\ acc.skipped_cap = Len(candidates) - acc.added
    /\ acc.skipped_dup = 0
    /\ acc.skipped_price = 0

\* C4 witness: N + 5 candidates of "98" over two dates, N accepted, 5 cap-reached
C4_Witness ==
  /\ pc = "loop"
  /\ Len(OfFuel(candidates, "98")) = ROW_LIMITS("98") + 5
  /\ \E i, j \in 1..Len(candidates) : candidates[i].Date # candidates[j].Date
  /\ acc.added = ROW_LIMITS("98")
  /\ acc.skipped_cap = 5

\* the orders a list of candidates can arrive in
Perms(q) ==
  {[i \in 1..Len(q) |-> q[b[i]]] :
     b \in {g \in [1..Len(q) -> 1..Len(q)] : \A i, j \in 1..Len(q) : g[i] = g[j] => i = j}}

\* the store main() writes once the loop has ended with locals a
FinalStore(a) == to_csv(Combined(file.exists, df_old, a.to_append))

KeysOf(rows) == {StoredKey(rows[i]) : i \in 1..Len(rows)}

\* C10 (as claimed): whatever order the candidates arrive in, the final store
\* holds the same set of rows.
C10_SameRows ==
  pc = "loop" =>
    \A q \in Perms(candidates) :
      Range(FinalStore(DedupCap(q, df_old, today))) = Range(FinalStore(acc))

\* C10 (amended): two orders of the candidates in neither of which a candidate
\* is cap-rejected leave the same set of identity keys in the final store.
C10_SameKeys ==
  pc = "loop" =>
    \A q \in Perms(candidates) :
      LET b == DedupCap(q, df_old, today)
      IN (acc.skipped_cap = 0 /\ b.skipped_cap = 0)
           => KeysOf(FinalStore(b)) = KeysOf(FinalStore(acc))

\* C10 witness: the store is not empty and two orders without a cap rejection
\* store different rows
C10_Witness ==
  /\ pc = "loop"
  /\ df_old # <<>>
  /\ \E q \in Perms(candidates) :
       LET b == DedupCap(q, df_old, today)
       IN /\ acc.skipped_cap = 0 /\ b.skipped_cap = 0
          /\ Range(FinalStore(b)) # Range(FinalStore(acc))

\* C9: every row of a store has a date field that is a resolved ISO date,
\* never a missing or empty one and never the raw token of the page.
C9_DatesResolved ==
  /\ \A i \in 1..Len(file.rows) : file.rows[i].Date.kind = "iso"
  /\ \A i \in 1..Len(tfile.rows) : tfile.rows[i].Datum.kind = "iso"

\* a returned value is the failure value or the text of a day of the calendar
ValidOrNone(r) == r = NoDate \/ (r.kind = "iso" /\ ValidDate(r.y, r.m, r.d))

\* C11: whatever the text, each normalizer returns the failure value or a
\* YYYY-MM-DD text of an existing calendar date (month 1..12, day within the
\* month's length in that year).
C11_ValidDates ==
  /\ date_str # NotCalled => ValidOrNone(date_str)
  /\ date_token # NotCalled => ValidOrNone(date_token)

\* the year the rule gives a d/m text: last year when (m, d) is strictly
\* later in the calendar than today's (month, day), this year otherwise
RuleYear(t, now) ==
  IF t.m > now.m \/ (t.m = now.m /\ t.d > now.d) THEN now.y - 1 ELSE now.y

\* the day a is not after the day b
NotAfter(a, b) ==
  a.y < b.y \/ (a.y = b.y /\ (a.m < b.m \/ (a.m = b.m /\ a.d <= b.d)))

\* C12: a d/m text of a day that exists in the year the rule gives it is
\* resolved by each normalizer to that day of that year, which is never after
\* today.
C12_YearInference ==
  (raw_date.kind = "dm" /\ ValidDate(RuleYear(raw_date, today), raw_date.m, raw_date.d))
    => LET want == Iso(RuleYear(raw_date, today), raw_date.m, raw_date.d)
       IN /\ NotAfter(want, today)
          /\ date_str # NotCalled => date_str = want
          /\ date_token # NotCalled => date_token = want

\* C12 witness: on 2025-01-10 both normalizers have resolved 15/9 to
\* 2024-09-15
C12_Witness ==
  /\ today = [y |-> 2025, m |-> 1, d |-> 10]
  /\ raw_date = Dm(15, 9)
  /\ date_str = Iso(2024, 9, 15)
  /\ date_token = Iso(2024, 9, 15)

\* the <tr> of the table that scrape_table emits a row for
KeptTrs == SelectSeq(table, LAMBDA tr : Len(tr.cells) + 1 >= 4)

\* C13: the row emitted for a <tr> with a <small> nested inside one of its
\* cells carries the date read off that <small>; the last cell gives the date
\* only of a <tr> without one.
C13_DateFromSmall ==
  tpc = "save" =>
    \A i \in 1..Len(scraped_rows) :
      (KeptTrs[i].small # NoSmall /\ KeptTrs[i].small_in_td)
        => scraped_rows[i].Datum = DateOrRaw(KeptTrs[i].small, today)

\* the rows of the file with the fuel f and the date d
StoredOf(f, d) == {i \in 1..Len(file.rows) : file.rows[i].Fuel = f /\ file.rows[i].Date = d}

\* C14: whatever runs came before, the file never holds more rows of one fuel
\* with a cap and one date than the cap of the fuel.
C14_StoreCap ==
  \A f \in FuelKeys : \A i \in 1..Len(file.rows) :
    ROW_LIMITS(f) # NoCap => Cardinality(StoredOf(f, file.rows[i].Date)) <= ROW_LIMITS(f)

\* C14 witness: a second run found a store below the cap, filled one date of
\* "98" up to the cap and turned a further candidate away
C14_Witness ==
  /\ pc = "done"
  /\ runs = 2
  /\ file0 # <<>>
  /\ Len(file.rows) > Len(file0)
  /\ summary.skipped_cap > 0
  /\ \E i \in 1..Len(file.rows) :
       Cardinality(StoredOf("98", file.rows[i].Date)) = ROW_LIMITS("98")

====
